---- MODULE Spec2Model ----
(***************************************************************************)
(* A model of create_charge_file of resp2/resp2.py: a TRIPOS MOL2 file is  *)
(* scanned line by line for the charges of its atom section, the charges   *)
(* are scaled (RESP1) or mixed with those of a second file (RESP2), and    *)
(* the first file is written out again with the new charges.               *)
(*                                                                         *)
(* A line is a sequence of lexemes: every lexeme is either a run of        *)
(* whitespace (" ", "\n") or one whole whitespace-delimited token.  Python *)
(* floats are binary floating-point numbers with round-to-nearest-even;    *)
(* the model keeps that arithmetic with a significand of Precision bits    *)
(* and values that are multiples of 2^-FracBits.                           *)
(***************************************************************************)
EXTENDS Integers, Sequences, FiniteSets, TLC

\* ---------------------------------------------------------------- bounds
MaxLines == 4      \* longest input file, in lines
MaxAtoms == 2      \* most atom lines of a condensed-phase file
Precision == 5     \* bits of the significand of a float
FracBits == 12     \* a float is a multiple of 2^-FracBits

\* ------------------------------------------------------- float arithmetic
One == 2^FracBits

Abs(x) == IF x < 0 THEN -x ELSE x

Sign(x) == IF x < 0 THEN -1 ELSE 1

RECURSIVE Ulp(_, _, _)
\* the spacing of the floats around a/den: the least power of two u with
\* a/den < 2^Precision * u
Ulp(a, den, u) == IF a < (2^Precision) * den * u THEN u ELSE Ulp(a, den, 2 * u)

\* num/den rounded to the nearest multiple of unit, ties to even
RoundHalfEven(num, unit) ==
  LET a == Abs(num)
      q == a \div unit
      r == a % unit
      m == IF 2 * r > unit \/ (2 * r = unit /\ q % 2 = 1) THEN q + 1 ELSE q
  IN Sign(num) * m

\* the float nearest to num/den (in units of 2^-FracBits)
RoundFloat(num, den) ==
  LET u == Ulp(Abs(num), den, 1)
  IN RoundHalfEven(num, den * u) * u

FMul(x, y) == RoundFloat(x * y, One)

FAdd(x, y) == RoundFloat(x + y, 1)

FSub(x, y) == RoundFloat(x - y, 1)

\* ------------------------------------------------------------- lexemes
Whitespace == {" ", "\n"}

Decimals == 4

\* the decimal literals of the model, in units of 10^-Decimals
DecimalOf(tok) ==
  CASE tok = "0.9000" -> 9000
    [] tok = "-0.5000" -> -5000
    [] tok = "0.1" -> 1000
    [] tok = "0.2" -> 2000
    [] tok = "0.3" -> 3000
    [] tok = "1" -> 10000
    [] tok = "2" -> 20000

NumericTokens == {"0.9000", "-0.5000", "0.1", "0.2", "0.3", "1", "2"}

\* float(tok): the float nearest to the decimal literal
float(tok) == RoundFloat(DecimalOf(tok) * One, 10^Decimals)

\* the float nearest to a decimal number d * 10^-Decimals
FromDecimal(d) == RoundFloat(d * One, 10^Decimals)

\* "{:.4f}".format(x): x rounded to Decimals decimal places, in units of
\* 10^-Decimals
Format4f(x) == RoundHalfEven(x * 10^Decimals, One)

\* line.split()
split(line) == SelectSeq(line, LAMBDA u : u \notin Whitespace)

\* marker in line
Contains(line, marker) == \E k \in 1..Len(line) : line[k] = marker

\* line.startswith(prefix)
startswith(line, prefix) == Len(line) >= 1 /\ line[1] = prefix

ATOM == "@<TRIPOS>ATOM"

BOND == "@<TRIPOS>BOND"

\* ---------------------------------------------------------------- inputs
MoleculeLine == <<"@<TRIPOS>MOLECULE", "\n">>

TitleStar == <<"***", "\n">>

AtomMarker == <<ATOM, "\n">>

BondMarker == <<BOND, "\n">>

AtomA ==
  <<"1", " ", "C1", " ", "0.1", " ", "0.2", " ", "0.3", " ", "C.3", " ", "1",
    " ", "UNK", " ", "0.9000", "\n">>

AtomB ==
  <<"2", " ", "H1", " ", "0.3", " ", "0.1", " ", "0.2", " ", "H", " ", "1",
    " ", "UNK", " ", "-0.5000", "\n">>

AtomBad ==
  <<"3", " ", "O1", " ", "0.2", " ", "0.3", " ", "0.1", " ", "O.3", " ", "1",
    " ", "UNK", " ", "****", "\n">>

BondRecord == <<"1", " ", "1", " ", "2", " ", "1", "\n">>

LineSet == {TitleStar, AtomMarker, BondMarker, AtomA, BondRecord}

Titles ==
  {<<"***", "\n">>, <<"resp_gas", "\n">>, <<"mol1_conf1", "\n">>,
   <<"ethanol", "\n">>, <<" ", "***", "\n">>}

BoundedSeq(S, n) == UNION {[1..k -> S] : k \in 0..n}

\* files of arbitrary lines
AnyFiles == BoundedSeq(LineSet, MaxLines)

\* files as the charge fit writes them, with each title
TitledFiles ==
  {<<MoleculeLine, t, AtomMarker, AtomA, AtomB, BondMarker, BondRecord>> :
     t \in Titles}

\* files with an atom line that carries no charge
MalformedFiles ==
  {<<AtomMarker, AtomBad>>, <<AtomMarker, BondRecord, BondMarker>>,
   <<MoleculeLine, TitleStar, AtomMarker, AtomA, AtomBad, BondMarker>>}

\* RESP1 files: arbitrary lines, titled files and malformed ones
Resp1Files == AnyFiles \cup TitledFiles \cup MalformedFiles

\* gas-phase files: arbitrary lines of the two sections, titled files and
\* malformed ones
GasFiles ==
  BoundedSeq({AtomMarker, BondMarker, AtomA, AtomB}, MaxLines - 1)
  \cup TitledFiles \cup MalformedFiles

\* condensed-phase files
LiquidFiles ==
  {<<AtomMarker>> \o atoms \o <<BondMarker>> :
     atoms \in BoundedSeq({AtomA, AtomB}, MaxAtoms)}
  \cup MalformedFiles

Deltas == {FromDecimal(0), FromDecimal(10000), FromDecimal(2000), FromDecimal(15000)}

Resnames == {"MOL"}

File(ls) == [exists |-> TRUE, lines |-> ls]

NoFile == [exists |-> FALSE, lines |-> <<>>]

\* ----------------------------------------------------------------- state
VARIABLES
  type,           \* parameter: 'RESP1' or 'RESP2'
  resname,        \* parameter: the residue name
  delta,          \* parameter: the mixing fraction, a float
  mol2_in,        \* the file f is opened on (mol2_resp1 or mol2_gas)
  mol2_liquid,    \* the file f2 is opened on
  output_file,    \* the file output is opened on
  handles,        \* the file objects that are open
  pc,             \* position in the function
  err,            \* the exception that ended the call, "none" if none
  lines,          \* lines = f.readlines()
  lines2,         \* lines2 = f2.readlines()
  i,              \* index of the next line or charge of the running loop
  v,              \* section of the scanner: 0 header, 1 atoms, 2 bonds on
  resp1charges,   \* charges read from the RESP1 file
  gpc,            \* charges read from the gas-phase file
  isc,            \* charges read from the condensed-phase file
  charges,        \* the new charges
  num,            \* number of atom lines written
  stage,          \* position in create_RESP2, "none" in a call from elsewhere
  fitted          \* the mol2 file each charge fit of create_RESP2 has left

vars ==
  <<type, resname, delta, mol2_in, mol2_liquid, output_file, handles, pc, err,
    lines, lines2, i, v, resp1charges, gpc, isc, charges, num, stage, fitted>>

params == <<type, resname, delta, stage, fitted>>

inputs == <<mol2_in, mol2_liquid>>

\* a scanner that falls back to the header at the bond marker
scan_header_after_bond(vv, line) ==
  IF Contains(line, ATOM) THEN 1
  ELSE IF Contains(line, BOND) THEN 0
  ELSE vv

\* a scanner that does not know the bond marker
scan_atom_only(vv, line) == IF Contains(line, ATOM) THEN 1 ELSE vv

\* the section after a line has been scanned
scan(vv, line) ==
  IF Contains(line, ATOM) THEN 1
  ELSE IF Contains(line, BOND) THEN 2
  ELSE vv

\* a scanner that takes the lines before the first marker for atom lines
is_atom_line_from_start(vv, line) ==
  ~Contains(line, ATOM) /\ ~Contains(line, BOND) /\ vv \in {0, 1}

\* a scanner that passes over the lines that are too short for a charge
is_atom_line_lenient(vv, line) ==
  /\ ~Contains(line, ATOM) /\ ~Contains(line, BOND) /\ vv = 1
  /\ Len(split(line)) >= 9

\* a line of the atom section that is not a marker
is_atom_line(vv, line) ==
  ~Contains(line, ATOM) /\ ~Contains(line, BOND) /\ vv = 1

\* position of the charge among the tokens of an atom line: entry[8]
ChargeColumn == 9

\* the exception float(entry[8]) raises on a line, "none" if none
charge_error(line) ==
  LET entry == split(line)
  IN IF Len(entry) < ChargeColumn THEN "IndexError"
     ELSE IF entry[ChargeColumn] \notin NumericTokens THEN "ValueError"
     ELSE "none"

\* float(entry[8])
charge_of(line) == float(split(line)[ChargeColumn])

\* scaling with delta clamped to [0,1]
scale_clamped(c, d) == FMul(c, IF d < 0 THEN 0 ELSE IF d > One THEN One ELSE d)

\* resp1charges[i] * delta
scale(c, d) == FMul(c, d)

\* mixing without the weight of the gas phase
mix_unweighted(g, c, d) == FAdd(g, FMul(c, d))

\* mixing with the weights exchanged
mix_swapped(g, c, d) == FAdd(FMul(g, d), FMul(c, FSub(One, d)))

\* gpc[i] * (1.0 - delta) + isc[i] * delta
mix(g, c, d) == FAdd(FMul(g, FSub(One, d)), FMul(c, d))

KnownPrefixes == {"***", "resp_gas", "mol1_conf1"}

\* a substitution that knows the placeholder '***' only
title_placeholder_only(line, rn) ==
  IF startswith(line, "***") THEN <<rn, "\n">> ELSE line

\* the second line after the molecule name has been substituted
title(line, rn) ==
  IF \E p \in KnownPrefixes : startswith(line, p) THEN <<rn, "\n">> ELSE line

\* a line written as it is
raw(line) == [kind |-> "raw", cols |-> line, charge |-> 0]

\* an atom line with the x and y columns exchanged
atom_line_swapped(entry, rn, c) ==
  [kind |-> "atom",
   cols |-> <<entry[1], entry[2], entry[4], entry[3], entry[5], entry[6],
              entry[7], rn>>,
   charge |-> Format4f(c)]

\* the formatted atom line: the fields id, name, x, y, z, type, subst_id and
\* residue name in their columns, then the charge with four decimals
atom_line(entry, rn, c) ==
  [kind |-> "atom",
   cols |-> <<entry[1], entry[2], entry[3], entry[4], entry[5], entry[6],
              entry[7], rn>>,
   charge |-> Format4f(c)]

fail(e) == pc' = "failed" /\ err' = e

\* the charge fits create_RESP2 runs
FitTypes == {"RESP2LIQUID", "RESP2GAS", "RESP1"}

NoFits == [t \in FitTypes |-> NoFile]

\* the files a charge fit leaves: none, or the atoms with fitted charges
FitFiles ==
  {NoFile,
   File(<<MoleculeLine, <<"mol1_conf1", "\n">>, AtomMarker, AtomA, AtomB,
          BondMarker, BondRecord>>),
   File(<<MoleculeLine, <<"mol1_conf1", "\n">>, AtomMarker, AtomB, AtomA,
          BondMarker, BondRecord>>)}

\* a call of create_charge_file
InitChargeFile ==
  /\ stage = "none"
  /\ fitted = NoFits
  /\ pc = "start"
  /\ \E t \in {"RESP1", "RESP2", "RESP3"}, d \in Deltas, rn \in Resnames :
       /\ type = t /\ delta = d /\ resname = rn
       /\ \/ /\ t = "RESP1"
             /\ mol2_in \in {File(ls) : ls \in Resp1Files} \cup {NoFile}
             /\ mol2_liquid = NoFile
          \/ /\ t = "RESP2"
             /\ mol2_in \in {File(ls) : ls \in GasFiles} \cup {NoFile}
             /\ mol2_liquid \in {File(ls) : ls \in LiquidFiles} \cup {NoFile}
          \/ /\ t = "RESP3"
             /\ mol2_in = NoFile
             /\ mol2_liquid = NoFile

\* a call of create_RESP2: create_charge_file has not been called yet
InitRESP2 ==
  /\ stage = "conformers"
  /\ fitted = NoFits
  /\ pc = "not_called"
  /\ type = "none"
  /\ delta \in Deltas
  /\ resname \in Resnames
  /\ mol2_in = NoFile
  /\ mol2_liquid = NoFile

Init ==
  /\ InitChargeFile \/ InitRESP2
  /\ output_file = NoFile
  /\ handles = {}
  /\ err = "none"
  /\ lines = <<>>
  /\ lines2 = <<>>
  /\ i = 0
  /\ v = 0
  /\ resp1charges = <<>>
  /\ gpc = <<>>
  /\ isc = <<>>
  /\ charges = <<>>
  /\ num = 0

\* lines 592-601: open the RESP1 file and the output, read the lines
OpenRESP1 ==
  /\ pc = "start"
  /\ type = "RESP1"
  /\ IF ~mol2_in.exists
     THEN /\ fail("FileNotFoundError")
          /\ UNCHANGED <<output_file, handles, lines, i, v>>
     ELSE /\ output_file' = File(<<>>)
          /\ handles' = {"f", "output"}
          /\ lines' = mol2_in.lines
          /\ v' = 0
          /\ i' = 1
          /\ pc' = "parse1"
          /\ err' = err
  /\ UNCHANGED <<params, inputs, lines2, resp1charges, gpc, isc, charges, num>>

\* lines 616-627: open both input files and the output, read the gas file
OpenRESP2 ==
  /\ pc = "start"
  /\ type = "RESP2"
  /\ IF ~mol2_in.exists
     THEN /\ fail("FileNotFoundError")
          /\ UNCHANGED <<output_file, handles, lines, i, v>>
     ELSE IF ~mol2_liquid.exists
     THEN /\ fail("FileNotFoundError")
          /\ handles' = {"f"}
          /\ UNCHANGED <<output_file, lines, i, v>>
     ELSE /\ output_file' = File(<<>>)
          /\ handles' = {"f", "f2", "output"}
          /\ lines' = mol2_in.lines
          /\ v' = 0
          /\ i' = 1
          /\ pc' = "parse_gas"
          /\ err' = err
  /\ UNCHANGED <<params, inputs, lines2, resp1charges, gpc, isc, charges, num>>

\* lines 656-658: any other type ends the process
UnknownType ==
  /\ pc = "start"
  /\ type \notin {"RESP1", "RESP2"}
  /\ fail("SystemExit")
  /\ UNCHANGED <<params, inputs, output_file, handles, lines, lines2, i, v,
                 resp1charges, gpc, isc, charges, num>>

\* lines 602-609: one line of the RESP1 file
ReadRESP1Line ==
  /\ pc = "parse1"
  /\ i <= Len(lines)
  /\ LET line == lines[i] IN
       IF is_atom_line(v, line)
       THEN IF charge_error(line) # "none"
            THEN /\ fail(charge_error(line))
                 /\ UNCHANGED <<i, v, resp1charges>>
            ELSE /\ resp1charges' = Append(resp1charges, charge_of(line))
                 /\ i' = i + 1
                 /\ UNCHANGED <<v, pc, err>>
       ELSE /\ v' = scan(v, line)
            /\ i' = i + 1
            /\ UNCHANGED <<resp1charges, pc, err>>
  /\ UNCHANGED <<params, inputs, output_file, handles, lines, lines2, gpc, isc,
                 charges, num>>

\* line 610: the RESP1 file has been read
CloseRESP1 ==
  /\ pc = "parse1"
  /\ i > Len(lines)
  /\ handles' = handles \ {"f"}
  /\ pc' = "charges"
  /\ UNCHANGED <<params, inputs, output_file, err, lines, lines2, i, v,
                 resp1charges, gpc, isc, charges, num>>

\* lines 628-635: one line of the gas-phase file
ReadGasLine ==
  /\ pc = "parse_gas"
  /\ i <= Len(lines)
  /\ LET line == lines[i] IN
       IF is_atom_line(v, line)
       THEN IF charge_error(line) # "none"
            THEN /\ fail(charge_error(line))
                 /\ UNCHANGED <<i, v, gpc>>
            ELSE /\ gpc' = Append(gpc, charge_of(line))
                 /\ i' = i + 1
                 /\ UNCHANGED <<v, pc, err>>
       ELSE /\ v' = scan(v, line)
            /\ i' = i + 1
            /\ UNCHANGED <<gpc, pc, err>>
  /\ UNCHANGED <<params, inputs, output_file, handles, lines, lines2,
                 resp1charges, isc, charges, num>>

\* lines 636-641: the gas-phase file has been read, read the other one
CloseGas ==
  /\ pc = "parse_gas"
  /\ i > Len(lines)
  /\ handles' = handles \ {"f"}
  /\ v' = 0
  /\ lines2' = mol2_liquid.lines
  /\ i' = 1
  /\ pc' = "parse_liquid"
  /\ UNCHANGED <<params, inputs, output_file, err, lines, resp1charges, gpc,
                 isc, charges, num>>

\* lines 642-649: one line of the condensed-phase file
ReadLiquidLine ==
  /\ pc = "parse_liquid"
  /\ i <= Len(lines2)
  /\ LET line == lines2[i] IN
       IF is_atom_line(v, line)
       THEN IF charge_error(line) # "none"
            THEN /\ fail(charge_error(line))
                 /\ UNCHANGED <<i, v, isc>>
            ELSE /\ isc' = Append(isc, charge_of(line))
                 /\ i' = i + 1
                 /\ UNCHANGED <<v, pc, err>>
       ELSE /\ v' = scan(v, line)
            /\ i' = i + 1
            /\ UNCHANGED <<isc, pc, err>>
  /\ UNCHANGED <<params, inputs, output_file, handles, lines, lines2,
                 resp1charges, gpc, charges, num>>

\* line 650: the condensed-phase file has been read
CloseLiquid ==
  /\ pc = "parse_liquid"
  /\ i > Len(lines2)
  /\ handles' = handles \ {"f2"}
  /\ pc' = "charges"
  /\ UNCHANGED <<params, inputs, output_file, err, lines, lines2, i, v,
                 resp1charges, gpc, isc, charges, num>>

\* lines 612-613: one scaled charge
ScaleCharge ==
  /\ pc = "charges"
  /\ type = "RESP1"
  /\ Len(charges) < Len(resp1charges)
  /\ charges' = Append(charges, scale(resp1charges[Len(charges) + 1], delta))
  /\ UNCHANGED <<params, inputs, output_file, handles, pc, err, lines, lines2,
                 i, v, resp1charges, gpc, isc, num>>

\* lines 653-654: one mixed charge
MixCharge ==
  /\ pc = "charges"
  /\ type = "RESP2"
  /\ Len(charges) < Len(isc)
  /\ LET k == Len(charges) + 1 IN
       IF k > Len(gpc)
       THEN /\ fail("IndexError")
            /\ UNCHANGED charges
       ELSE /\ charges' = Append(charges, mix(gpc[k], isc[k], delta))
            /\ UNCHANGED <<pc, err>>
  /\ UNCHANGED <<params, inputs, output_file, handles, lines, lines2, i, v,
                 resp1charges, gpc, isc, num>>

\* the sequence the charges are computed from, one new charge for each
source_charges == IF type = "RESP1" THEN resp1charges ELSE isc

\* lines 660-664: the charges are there; substitute the molecule name
SetTitle ==
  /\ pc = "charges"
  /\ Len(charges) = Len(source_charges)
  /\ IF Len(lines) < 2
     THEN /\ fail("IndexError")
          /\ UNCHANGED <<lines, i, v, num>>
     ELSE /\ lines' = [lines EXCEPT ![2] = title(lines[2], resname)]
          /\ v' = 0
          /\ num' = 0
          /\ i' = 1
          /\ pc' = "write"
          /\ err' = err
  /\ UNCHANGED <<params, inputs, output_file, handles, lines2, resp1charges,
                 gpc, isc, charges>>

\* lines 665-681: one line of the output
WriteLine ==
  /\ pc = "write"
  /\ i <= Len(lines)
  /\ LET line == lines[i]
         entry == split(line)
     IN IF is_atom_line(v, line)
        THEN IF Len(entry) < 7 \/ num + 1 > Len(charges)
             THEN /\ fail("IndexError")
                  /\ UNCHANGED <<output_file, i, v, num>>
             ELSE /\ output_file' =
                       [output_file EXCEPT
                          !.lines = Append(@, atom_line(entry, resname, charges[num + 1]))]
                  /\ num' = num + 1
                  /\ i' = i + 1
                  /\ UNCHANGED <<v, pc, err>>
        ELSE /\ v' = scan(v, line)
             /\ output_file' = [output_file EXCEPT !.lines = Append(@, raw(line))]
             /\ i' = i + 1
             /\ UNCHANGED <<num, pc, err>>
  /\ UNCHANGED <<params, inputs, handles, lines, lines2, resp1charges, gpc,
                 isc, charges>>

\* lines 682-685: close the files and return
Close ==
  /\ pc = "write"
  /\ i > Len(lines)
  /\ handles' = handles \ {"f", "output"}
  /\ pc' = "done"
  /\ UNCHANGED <<params, inputs, output_file, err, lines, lines2, i, v,
                 resp1charges, gpc, isc, charges, num>>

\* lines 706-722: the molecule file and its conformers
CreateConformers ==
  /\ stage = "conformers"
  /\ stage' = "optimize"
  /\ UNCHANGED <<type, resname, delta, fitted, inputs, output_file, handles, pc,
                 err, lines, lines2, i, v, resp1charges, gpc, isc, charges, num>>

\* line 723: the conformers are optimized
OptimizeConformers ==
  /\ stage = "optimize"
  /\ stage' = "RESP2LIQUID"
  /\ UNCHANGED <<type, resname, delta, fitted, inputs, output_file, handles, pc,
                 err, lines, lines2, i, v, resp1charges, gpc, isc, charges, num>>

\* line 724: create_respyte(type='RESP2LIQUID'); the fit leaves its mol2 file, or none
RespyteLiquid ==
  /\ stage = "RESP2LIQUID"
  /\ \E f \in FitFiles : fitted' = [fitted EXCEPT !["RESP2LIQUID"] = f]
  /\ stage' = "RESP2GAS"
  /\ UNCHANGED <<type, resname, delta, inputs, output_file, handles, pc, err,
                 lines, lines2, i, v, resp1charges, gpc, isc, charges, num>>

\* line 725: create_respyte(type='RESP2GAS'); the fit leaves its mol2 file, or none
RespyteGas ==
  /\ stage = "RESP2GAS"
  /\ \E f \in FitFiles : fitted' = [fitted EXCEPT !["RESP2GAS"] = f]
  /\ stage' = "RESP1"
  /\ UNCHANGED <<type, resname, delta, inputs, output_file, handles, pc, err,
                 lines, lines2, i, v, resp1charges, gpc, isc, charges, num>>

\* line 726: create_respyte(type='RESP1'); the fit leaves its mol2 file, or none
RespyteRESP1 ==
  /\ stage = "RESP1"
  /\ \E f \in FitFiles : fitted' = [fitted EXCEPT !["RESP1"] = f]
  /\ stage' = "call"
  /\ UNCHANGED <<type, resname, delta, inputs, output_file, handles, pc, err,
                 lines, lines2, i, v, resp1charges, gpc, isc, charges, num>>

\* the type create_RESP2 passes to create_charge_file
CalledType == "RESP1"

\* line 727: create_charge_file(name, resname, type, delta); the paths of
\* lines 593 and 617-618 name the files of the fits
CallChargeFile ==
  /\ stage = "call"
  /\ stage' = "charge_file"
  /\ type' = CalledType
  /\ pc' = "start"
  /\ mol2_in' = IF CalledType = "RESP1" THEN fitted["RESP1"] ELSE fitted["RESP2GAS"]
  /\ mol2_liquid' = fitted["RESP2LIQUID"]
  /\ UNCHANGED <<resname, delta, fitted, output_file, handles, err, lines,
                 lines2, i, v, resp1charges, gpc, isc, charges, num>>

\* line 728: create_RESP2 returns
ReturnRESP2 ==
  /\ stage = "charge_file"
  /\ pc = "done"
  /\ stage' = "returned"
  /\ UNCHANGED <<type, resname, delta, fitted, inputs, output_file, handles, pc,
                 err, lines, lines2, i, v, resp1charges, gpc, isc, charges, num>>

Next ==
  \/ CreateConformers
  \/ OptimizeConformers
  \/ RespyteLiquid
  \/ RespyteGas
  \/ RespyteRESP1
  \/ CallChargeFile
  \/ ReturnRESP2
  \/ OpenRESP1
  \/ OpenRESP2
  \/ UnknownType
  \/ ReadRESP1Line
  \/ CloseRESP1
  \/ ReadGasLine
  \/ CloseGas
  \/ ReadLiquidLine
  \/ CloseLiquid
  \/ ScaleCharge
  \/ MixCharge
  \/ SetTitle
  \/ WriteLine
  \/ Close

Spec == Init /\ [][Next]_vars

TypeOK ==
  /\ pc \in {"not_called", "start", "parse1", "parse_gas", "parse_liquid", "charges", "write",
             "done", "failed"}
  /\ err \in {"none", "FileNotFoundError", "IndexError", "ValueError", "SystemExit"}
  /\ v \in 0..2
  /\ handles \subseteq {"f", "f2", "output"}

\* ------------------------------------------------- the files, line by line
\* a line that holds a section marker
HasMarker(l) == \E k \in 1..Len(l) : l[k] \in {ATOM, BOND}

\* the section in force when line k of ls is read: that of the last marker
\* line before it
SectionAt(ls, k) ==
  LET before == {m \in 1..(k - 1) : HasMarker(ls[m])}
  IN IF before = {} THEN 0
     ELSE LET m == CHOOSE x \in before : \A y \in before : y <= x
          IN IF \E u \in 1..Len(ls[m]) : ls[m][u] = ATOM THEN 1 ELSE 2

\* line k of ls is a data line of the atom section
AtomLineAt(ls, k) == k \in 1..Len(ls) /\ ~HasMarker(ls[k]) /\ SectionAt(ls, k) = 1

AtomPositions(ls) == {k \in 1..Len(ls) : AtomLineAt(ls, k)}

NAtoms(ls) == Cardinality(AtomPositions(ls))

\* how many atom lines ls has up to line k
AtomRank(ls, k) == Cardinality({m \in AtomPositions(ls) : m <= k})

\* the j-th atom line of ls
NthAtom(ls, j) == ls[CHOOSE k \in AtomPositions(ls) : AtomRank(ls, k) = j]

\* the charge the j-th atom line of ls carries
NthCharge(ls, j) == float(split(NthAtom(ls, j))[9])

\* an atom line without a ninth token that is a number
BadAtomLineAt(ls, k) ==
  /\ AtomLineAt(ls, k)
  /\ \/ Len(split(ls[k])) < 9
     \/ split(ls[k])[9] \notin NumericTokens

Min(a, b) == IF a <= b THEN a ELSE b

Max(a, b) == IF a >= b THEN a ELSE b

\* the new charges have all been computed
ChargesComputed ==
  \/ pc \in {"write", "done"}
  \/ pc = "charges" /\ Len(charges) = Len(source_charges)

SameAtomCount == NAtoms(mol2_in.lines) = NAtoms(mol2_liquid.lines)

\* ------------------------------------------------------------------ claims
\* C1: in RESP2 mode, for gas-phase and condensed-phase files with the same
\* number N of atom lines, the computed charge list has N entries and entry i
\* is gas[i] * (1 - delta) + condensed[i] * delta, over the charges of the
\* i-th atom lines of the two files.
C1_Resp2MixesByIndex ==
  (type = "RESP2" /\ ChargesComputed /\ SameAtomCount) =>
    /\ Len(charges) = NAtoms(mol2_in.lines)
    /\ \A j \in 1..Len(charges) :
         charges[j] =
           FAdd(FMul(NthCharge(mol2_in.lines, j), FSub(One, delta)),
                FMul(NthCharge(mol2_liquid.lines, j), delta))

C1_Witness ==
  /\ type = "RESP2" /\ pc = "done" /\ SameAtomCount
  /\ Len(charges) = 2
  /\ delta = FromDecimal(2000)
  /\ NthCharge(mol2_in.lines, 1) # NthCharge(mol2_liquid.lines, 1)

\* C2: RESP2 mixing with delta = 0 gives exactly the gas-phase charges, with
\* delta = 1 exactly the condensed-phase charges.
C2_DeltaEndpoints ==
  (type = "RESP2" /\ ChargesComputed /\ SameAtomCount) =>
    /\ delta = 0 =>
         charges = [j \in 1..NAtoms(mol2_in.lines) |-> NthCharge(mol2_in.lines, j)]
    /\ delta = One =>
         charges = [j \in 1..NAtoms(mol2_liquid.lines) |-> NthCharge(mol2_liquid.lines, j)]

C2_Witness ==
  /\ type = "RESP2" /\ pc = "done" /\ SameAtomCount
  /\ delta = One
  /\ Len(charges) = 2
  /\ \E j \in 1..2 : NthCharge(mol2_in.lines, j) # NthCharge(mol2_liquid.lines, j)

\* C3: in RESP2 mode, when the two files have different numbers of atom
\* lines, the call does not complete and no atom line is written.
C3_MismatchWritesNoAtomLine ==
  (type = "RESP2" /\ mol2_in.exists /\ mol2_liquid.exists /\ ~SameAtomCount) =>
    /\ pc # "done"
    /\ \A k \in 1..Len(output_file.lines) : output_file.lines[k].kind # "atom"

C5_NoOutputAfterFailure == pc = "failed" => ~output_file.exists

\* C6: in RESP1 mode the computed charge list has one entry for each atom
\* line of the input, the parsed charge times delta, whatever delta is.
C6_Resp1Scales ==
  (type = "RESP1" /\ ChargesComputed) =>
    /\ Len(charges) = NAtoms(mol2_in.lines)
    /\ \A j \in 1..Len(charges) :
         charges[j] = FMul(NthCharge(mol2_in.lines, j), delta)

C6_Witness ==
  /\ type = "RESP1" /\ pc = "done"
  /\ Len(charges) = 2
  /\ delta > One
  /\ Abs(charges[1]) > Abs(NthCharge(mol2_in.lines, 1))

\* C7: every atom line of the output stands where the input has an atom
\* line, carries that line's first seven tokens in order, then the residue
\* name, and the charge computed for that atom; none is skipped.
C7_AtomLineFields ==
  LET in == mol2_in.lines
      out == output_file.lines
  IN \A k \in 1..Len(out) :
       /\ AtomLineAt(in, k) <=> out[k].kind = "atom"
       /\ out[k].kind = "atom" =>
            /\ out[k].cols = SubSeq(split(in[k]), 1, 7) \o <<resname>>
            /\ AtomRank(in, k) <= Len(charges)
            /\ out[k].charge = Format4f(charges[AtomRank(in, k)])

C7_Witness ==
  /\ pc = "done"
  /\ NAtoms(mol2_in.lines) = 2
  /\ NthAtom(mol2_in.lines, 1) # NthAtom(mol2_in.lines, 2)
  /\ charges[1] # charges[2]

\* the parser has gone past line k of the file it reads at position p
PastLine(p, k) ==
  \/ pc = p /\ i > k
  \/ /\ p \in {"parse1", "parse_gas"}
     /\ pc \in {"parse_liquid", "charges", "write", "done"}
  \/ p = "parse_liquid" /\ pc \in {"charges", "write", "done"}

\* C8: an atom line without a numeric ninth token ends the call with an
\* error at that line: the parser never goes past it.
C8_BadAtomLineFails ==
  /\ \A k \in 1..Len(mol2_in.lines) :
       BadAtomLineAt(mol2_in.lines, k) =>
         /\ ~PastLine("parse1", k)
         /\ ~PastLine("parse_gas", k)
         /\ (pc = "failed" /\ i = k) => err \in {"IndexError", "ValueError"}
  /\ \A k \in 1..Len(mol2_liquid.lines) :
       BadAtomLineAt(mol2_liquid.lines, k) =>
         /\ ~PastLine("parse_liquid", k)
         /\ (pc = "failed" /\ lines2 # <<>> /\ i = k) =>
              err \in {"IndexError", "ValueError"}

C8_Witness ==
  /\ pc = "failed"
  /\ err = "IndexError"
  /\ i > 1
  /\ BadAtomLineAt(mol2_in.lines, i)
  /\ \A k \in 1..(i - 1) : ~BadAtomLineAt(mol2_in.lines, k)

\* C9: for delta in [0,1] every RESP2 mixed charge lies between the gas-phase
\* and the condensed-phase charge it is mixed from, inclusive.
C9_MixedBetween ==
  (type = "RESP2" /\ ChargesComputed /\ SameAtomCount /\ 0 <= delta /\ delta <= One) =>
    \A j \in 1..Len(charges) :
      LET g == NthCharge(mol2_in.lines, j)
          c == NthCharge(mol2_liquid.lines, j)
      IN Min(g, c) <= charges[j] /\ charges[j] <= Max(g, c)

\* the second line has been written
SecondLineWritten == Len(output_file.lines) >= 2

BeginsWithKnownPrefix(l) == l[1] \in {"***", "resp_gas", "mol1_conf1"}

\* no line before the atom section other than the second is altered
HeaderCopied ==
  \A k \in 1..Len(output_file.lines) :
    (k # 2 /\ SectionAt(mol2_in.lines, k) = 0) =>
      output_file.lines[k] = [kind |-> "raw", cols |-> mol2_in.lines[k], charge |-> 0]

\* C10 as stated: the second line is replaced by the residue name and a line
\* break iff it begins with a known prefix, otherwise it is copied verbatim;
\* no other header line is altered.
C10_TitleAsStated ==
  SecondLineWritten =>
    /\ output_file.lines[2] =
         IF BeginsWithKnownPrefix(mol2_in.lines[2])
         THEN [kind |-> "raw", cols |-> <<resname, "\n">>, charge |-> 0]
         ELSE [kind |-> "raw", cols |-> mol2_in.lines[2], charge |-> 0]
    /\ HeaderCopied

\* C10 (amended): the second line is replaced by the residue name and a line
\* break iff it begins with a known prefix; otherwise it is copied verbatim,
\* unless it is a data line of the atom section, which is rewritten as an
\* atom line; no other header line is altered.
C10_TitleSubstituted ==
  SecondLineWritten =>
    /\ IF BeginsWithKnownPrefix(mol2_in.lines[2])
       THEN output_file.lines[2] =
              [kind |-> "raw", cols |-> <<resname, "\n">>, charge |-> 0]
       ELSE IF AtomLineAt(mol2_in.lines, 2)
       THEN output_file.lines[2].kind = "atom"
       ELSE output_file.lines[2] =
              [kind |-> "raw", cols |-> mol2_in.lines[2], charge |-> 0]
    /\ HeaderCopied

C10_Witness ==
  /\ pc = "done"
  /\ mol2_in.lines[2][1] = "mol1_conf1"
  /\ mol2_in.lines[1] = MoleculeLine
  /\ output_file.lines[2].cols = <<resname, "\n">>

\* C11: the last step of create_RESP2 generates the charge file in RESP2
\* mode: the charges of the gas-phase fit mixed with those of the
\* condensed-phase fit with the given delta.
C11_FinalStepMixes ==
  stage \in {"charge_file", "returned"} =>
    /\ type = "RESP2"
    /\ (pc = "done"
        /\ NAtoms(fitted["RESP2GAS"].lines) = NAtoms(fitted["RESP2LIQUID"].lines)) =>
         /\ Len(charges) = NAtoms(fitted["RESP2GAS"].lines)
         /\ \A j \in 1..Len(charges) :
              charges[j] =
                FAdd(FMul(NthCharge(fitted["RESP2GAS"].lines, j), FSub(One, delta)),
                     FMul(NthCharge(fitted["RESP2LIQUID"].lines, j), delta))

\* the positions at which a file is scanned line by line
ScanPositions == {"parse1", "parse_gas", "parse_liquid", "write"}

\* a step that scans one line and goes on with the next
ScanStep == pc \in ScanPositions /\ pc' = pc /\ i' = i + 1

\* the line a scan is at
ScannedLine == IF pc = "parse_liquid" THEN lines2[i] ELSE lines[i]

C13_HandlesClosed == pc \in {"done", "failed"} => handles = {}

\* no line of ls holds the atom marker
NoAtomMarker(ls) == \A k \in 1..Len(ls) : \A u \in 1..Len(ls[k]) : ls[k][u] # ATOM

\* what C14 says of a call: no error, no charge, no atom line written, and
\* the call goes on until it has completed
RunsWithoutAtoms ==
  /\ pc # "failed"
  /\ resp1charges = <<>> /\ gpc = <<>> /\ charges = <<>>
  /\ num = 0
  /\ \A k \in 1..Len(output_file.lines) : output_file.lines[k].kind = "raw"
  /\ pc # "done" => ENABLED Next

\* C14 as stated: for an input file without an '@<TRIPOS>ATOM' marker line no
\* atom is extracted, the charge sequence is empty, no error is raised, the
\* call completes and writes no reformatted atom line.
C14_NoMarkerCompletes ==
  (/\ type \in {"RESP1", "RESP2"}
   /\ mol2_in.exists /\ NoAtomMarker(mol2_in.lines)
   /\ type = "RESP2" => mol2_liquid.exists) => RunsWithoutAtoms

\* C14 (amended): the same for an input file of at least two lines, and in
\* RESP2 mode a condensed-phase file without atom lines.
C14_NoMarkerTwoLinesCompletes ==
  (/\ type \in {"RESP1", "RESP2"}
   /\ mol2_in.exists /\ NoAtomMarker(mol2_in.lines)
   /\ Len(mol2_in.lines) >= 2
   /\ type = "RESP2" => (mol2_liquid.exists /\ NAtoms(mol2_liquid.lines) = 0))
  => RunsWithoutAtoms

C14_Witness ==
  /\ pc = "done"
  /\ mol2_in.exists /\ NoAtomMarker(mol2_in.lines)
  /\ \E k \in 1..Len(mol2_in.lines) : mol2_in.lines[k] = AtomA
  /\ Len(output_file.lines) = Len(mol2_in.lines)
  /\ charges = <<>>

====
